---- MODULE Spec2Model ----
(***************************************************************************)
(* A model of the asteroid ingestion pipeline (src/lib/dataLoader.ts over  *)
(* src/lib/indexedDB.ts) and of the instance managers' chunked loading     *)
(* (three/AsteroidBeltOptimized.ts, three/AsteroidBeltBVH.ts).             *)
(*                                                                         *)
(* Strings that only serve as keys are modelled by naturals in key order:  *)
(* an asteroid id is a natural >= 1 and 0 stands for the empty string.     *)
(* Sizes that the source fixes in the thousands (store batch, chunk and    *)
(* progress intervals) are scaled down to single digits; every scaled size *)
(* is a named bound below.                                                 *)
(***************************************************************************)
EXTENDS Naturals, Integers, Sequences, FiniteSets, TLC

\* ------------------------------------------------------------------ bounds
\* Largest number of data lines of the CSV file.
MaxRows == 4
\* Largest number of lines of one file that are not plain, unique, valid rows.
MaxBad == 1
\* storeBatchSize of loadAsteroidData (5000 in the source), scaled.
StoreBatchSize == 2
\* batchSize of the parse loop (10000 in the source), scaled.
ParseBatchSize == 3
\* The fixed row count of streamAsteroidsFromCache's progress interval
\* (5000 in the source), scaled.
ProgressRows == 2
\* Largest number of bytes one reader.read() delivers (one line = one byte).
MaxChunk == 3

\* ------------------------------------------------------- program constants
\* 138 * 1024 * 1024, the assumed file size when there is no Content-Length.
AssumedFileSize == 144703488

\* --------------------------------------------------------------- the input
Min(a, b) == IF a < b THEN a ELSE b
Max(a, b) == IF a > b THEN a ELSE b
Range(s) == {s[k] : k \in 1..Len(s)}
Last(s) == s[Len(s)]

\* The header line, split on ',' and trimmed.
Headers == <<"id", "name">>

\* The kinds of data line. "ok" is a well-formed row with an id of its own.
Kinds == {"ok", "dup", "short", "long", "blank", "noid"}

\* The k-th data line of a file of n lines, already split into its values
\* (parseRow's values array):
\*   ok     id k, first name
\*   dup    the id of another line of the file, second name
\*   short  fewer values than the header has columns
\*   long   more values than the header has columns
\*   blank  an empty line
\*   noid   a row whose id column is empty
Row(k, n, kind) ==
  CASE kind = "ok" -> <<k, 1>>
    [] kind = "dup" -> <<(k % n) + 1, 2>>
    [] kind = "short" -> <<k>>
    [] kind = "long" -> <<k, 1, 7>>
    [] kind = "blank" -> <<>>
    [] kind = "noid" -> <<0, 1>>

\* The files: up to MaxRows data lines, at most MaxBad of them not "ok".
Files ==
  UNION {
    { [k \in 1..n |-> Row(k, n, kinds[k])] :
        kinds \in { f \in [1..n -> Kinds] :
                      Cardinality({k \in 1..n : f[k] # "ok"}) <= MaxBad } }
    : n \in 1..MaxRows }

VARIABLES
  \* IndexedDB, durable across page loads
  store,          \* object store 'asteroids', keyPath 'id': a set of records
  meta,           \* object store 'metadata', keyPath 'key': a set of records
  \* the served file
  rows,           \* the data lines of /data/dataset.csv
  \* one run of loadAsteroidData
  pc,             \* where the run stands
  alreadyStored,
  asteroids,      \* the parsed and enriched records
  idx,            \* the store loop's i
  storedSoFar,
  received,       \* bytes received
  estimatedTotal, \* Content-Length, 0 when absent
  events,         \* the onProgress calls of this run, in order
  result,         \* the value the run resolved with, -1 before
  failedIn,       \* the phase in which the run rejected, "" if it has not
  failedOp,       \* the call whose failure rejected it
  \* streamAsteroidsFromCache's scan
  scan,
  \* history: the database as it was when the run started
  atStart

ingestVars == <<store, meta, rows, pc, alreadyStored, asteroids, idx,
                storedSoFar, received, estimatedTotal, events, result,
                failedIn, failedOp, scan, atStart>>

\* ------------------------------------------------------------- indexedDB.ts
\* IDBObjectStore.put on a store whose keyPath is `key`: the record replaces
\* the one stored under the same key, if any.
PutAppends(s, rec, key) == s \cup {rec}
Put(s, rec, key) == {x \in s : x[key] # rec[key]} \cup {rec}

\* getDB: openDB creates the object stores that do not exist yet, empty, and
\* leaves the ones that exist as they are. <<asteroids, metadata>>.
getDBRecreates(s, m) == <<{}, {}>>
getDB(s, m) == <<s, m>>

\* A readwrite transaction that aborts: none of its puts remains.
AbortedStoreKeepsFirst(s, batch) ==
  IF batch = <<>> THEN s ELSE Put(s, Head(batch), "id")
AbortedStore(s, batch) == s

\* storeAsteroids: one readwrite transaction that puts the records in order.
RECURSIVE PutAll(_, _)
PutAll(s, batch) ==
  IF batch = <<>> THEN s
  ELSE PutAll(Put(s, Head(batch), "id"), Tail(batch))

storeAsteroids(s, batch) == PutAll(s, batch)

\* db.count(STORE_NAME)
getCachedCount(s) == Cardinality(s)

\* isDataCached: meta?.value === true for key 'dataLoaded'
isDataCached(m) == \E x \in m : x.key = "dataLoaded" /\ x.value = TRUE

\* getPartialLoadProgress: storedCount is the store's count, not the
\* checkpoint's storedCount.
getPartialLoadProgress(s, m) ==
  [ storedCount |-> Cardinality(s),
    totalExpected |->
      IF \E x \in m : x.key = "loadProgress"
      THEN (CHOOSE x \in m : x.key = "loadProgress").totalExpected
      ELSE 0,
    isComplete |-> isDataCached(m) ]

updatePartialLoadProgress(m, storedCount, totalExpected) ==
  Put(m, [key |-> "loadProgress", storedCount |-> storedCount,
          totalExpected |-> totalExpected], "key")

markDataLoaded(m) == Put(m, [key |-> "dataLoaded", value |-> TRUE], "key")

\* The records of the store in key order, as a cursor visits them.
RECURSIVE InKeyOrder(_)
InKeyOrder(s) ==
  IF s = {} THEN <<>>
  ELSE LET r == CHOOSE x \in s : \A y \in s : x.id <= y.id
       IN <<r>> \o InKeyOrder(s \ {r})


\* ------------------------------------------------------------ dataLoader.ts
\* One onProgress call: {phase, current, total, message}. The message is kept
\* as its template's name and the numbers it interpolates.
EvPhaseLost(phase, current, total, message) ==
  [phase |-> "checking", current |-> current, total |-> total,
   message |-> message]
Ev(phase, current, total, message) ==
  [phase |-> phase, current |-> current, total |-> total, message |-> message]

\* parseRow: null when the row has fewer values
\* than the header has columns; else the values under the header's names.
\* Values beyond the header's columns are dropped.
Null == [null |-> TRUE]
parseRow(row, headers) ==
  IF Len(row) < Len(headers) THEN Null
  ELSE [h \in Range(headers) |->
          row[CHOOSE k \in 1..Len(headers) : headers[k] = h]]

\* The enriched record of a parsed row (the fields this model keeps).
Enrich(parsed) == [id |-> parsed.id, name |-> parsed.name]

\* The parse loop from data line k on: <<asteroids, batch length, events>>.
\* A blank line, a row parseRow rejects and a row without id are passed over.
RECURSIVE ParseFrom(_, _, _, _, _)
ParseFrom(lines, k, acc, batchLen, evs) ==
  IF k > Len(lines) THEN <<acc, evs>>
  ELSE
    LET line == lines[k]
        parsed == parseRow(line, Headers)
    IN IF line = <<>> \/ parsed = Null
       THEN ParseFrom(lines, k + 1, acc, batchLen, evs)
       ELSE IF parsed.id = 0
       THEN ParseFrom(lines, k + 1, acc, batchLen, evs)
       ELSE IF batchLen + 1 >= ParseBatchSize
            THEN ParseFrom(lines, k + 1, Append(acc, Enrich(parsed)), 0,
                           Append(evs, Ev("parsing", k, Len(lines) + 1,
                                          <<"Parsing", k, Len(lines) + 1>>)))
            ELSE ParseFrom(lines, k + 1, Append(acc, Enrich(parsed)),
                           batchLen + 1, evs)

\* asteroids.slice(i, i + storeBatchSize), i counted from 0
StoreBatchAt(as, i) == SubSeq(as, i + 1, Min(i + StoreBatchSize, Len(as)))

\* startIndex: the batch boundary at or before the number already stored.
StartIndexExact(stored) == stored
StartIndexSkipsAhead(stored) ==
  IF stored > 0 THEN ((stored \div StoreBatchSize) + 1) * StoreBatchSize ELSE 0
StartIndex(stored) ==
  IF stored > 0 THEN (stored \div StoreBatchSize) * StoreBatchSize ELSE 0

\* storedSoFar after the batch that starts at i (line 383).
StoredAfterBatchLength(i, n) == Min(StoreBatchSize, n - i)
StoredAfterUncapped(i, n) == i + StoreBatchSize
StoredAfter(i, n) == Min(i + StoreBatchSize, n)

\* The store loop's test, `i < asteroids.length` (line 379).
MoreBatchesStopsEarly(i, n) == i + StoreBatchSize < n
MoreBatches(i, n) == i < n

\* displayTotal of a 'downloading' event.
DisplayTotal(recv, estimated) ==
  IF estimated > 0 THEN estimated
  ELSE Max((recv * 11) \div 10, AssumedFileSize)

\* The event after the read loop: "show 100%" (lines 270-276).
DownloadedAsCounted(recv, estimated) ==
  Ev("downloading", recv, DisplayTotal(recv, estimated), <<"Downloaded", recv>>)
Downloaded(recv, estimated) ==
  Ev("downloading", 100, 100, <<"Downloaded", recv>>)

\* LoadingScreen's getPercentage of a progress event: Math.round of the
\* ratio, and exactly 100 once current has reached total.
getPercentage(progress) ==
  IF progress.total = 0 THEN 0
  ELSE IF progress.current >= progress.total THEN 100
  ELSE (200 * progress.current + progress.total) \div (2 * progress.total)

\* The size of the file: one byte a line, the header included.
FileBytes == Len(rows) + 1

NoScan == [total |-> 0, loaded |-> 0, lastProgressUpdate |-> 0, pos |-> 0,
           txActive |-> FALSE]

IngestInit ==
  /\ store = {}
  /\ meta = {}
  /\ rows \in Files
  /\ pc = "idle"
  /\ alreadyStored = 0
  /\ asteroids = <<>>
  /\ idx = 0
  /\ storedSoFar = 0
  /\ received = 0
  /\ estimatedTotal = 0
  /\ events = <<>>
  /\ result = -1
  /\ failedIn = ""
  /\ failedOp = ""
  /\ scan = NoScan
  /\ atStart = <<{}, {}>>

\* loadAsteroidData up to its first wait: the cache check (lines 198-236).
\* Its reads change nothing, so they are taken in one step.
CheckCache ==
  /\ pc = "idle"
  /\ atStart' = <<store, meta>>
  /\ LET checking == Ev("checking", 0, 100, <<"Checking cache">>)
         db == getDB(store, meta)
         count == getCachedCount(db[1])
         partial == getPartialLoadProgress(db[1], db[2])
     IN /\ store' = db[1]
        /\ meta' = db[2]
        /\ IF isDataCached(db[2]) /\ count > 0
           THEN /\ events' = <<checking,
                               Ev("loading-cache", 0, count, <<"Loading from cache">>)>>
                \* streamAsteroidsFromCache: count, transaction, openCursor
                /\ scan' = [total |-> count, loaded |-> 0, lastProgressUpdate |-> 0,
                            pos |-> 1, txActive |-> TRUE]
                /\ pc' = "stream"
                /\ UNCHANGED alreadyStored
           ELSE /\ alreadyStored' = partial.storedCount
                /\ events' =
                     <<checking>>
                     \o (IF partial.storedCount > 0 /\ ~partial.isComplete
                         THEN <<Ev("checking", 50, 100,
                                   <<"Found partially stored", partial.storedCount>>)>>
                         ELSE <<>>)
                     \o <<Ev("downloading", 0, 100, <<"Downloading asteroid data">>)>>
                /\ pc' = "fetch"
                /\ UNCHANGED scan
  /\ UNCHANGED <<rows, asteroids, idx, storedSoFar, received,
                 estimatedTotal, result, failedIn, failedOp>>

\* A call rejects or throws: loadAsteroidData has no try/catch, so it rejects.
Reject(phase, op) ==
  /\ pc' = "failed"
  /\ failedIn' = phase
  /\ failedOp' = op

NoReject == UNCHANGED <<failedIn, failedOp>>


\* ------------------------------------------- streamAsteroidsFromCache's loop
\* A transaction is active while a request of its own is pending or being
\* answered. Once the function waits on a timer instead (setTimeout), control
\* returns to the host with no request pending and the host finishes the
\* transaction.
TxAfterTimerWait == FALSE

\* cursor.continue() is answered: the cursor moves on, and when it is
\* exhausted the loop ends, streamAsteroidsFromCache returns and
\* loadAsteroidData reports 'complete' and returns the count (lines 217-218).
StreamAdvance(sc, evs) ==
  LET next == [sc EXCEPT !.pos = sc.pos + 1]
  IN /\ scan' = next
     /\ IF next.pos > getCachedCount(store)
        THEN /\ events' = Append(evs, Ev("complete", 100, 100,
                                         <<"Loaded", sc.total>>))
             /\ result' = sc.total
             /\ pc' = "done"
        ELSE /\ events' = evs
             /\ pc' = "stream"
             /\ UNCHANGED result

\* One turn of `while (cursor)`: push the record, count it, and either report
\* progress and wait on a timer, or go straight on to cursor.continue().
StreamRecord ==
  /\ pc = "stream"
  /\ scan.pos <= getCachedCount(store)
  /\ LET loaded == scan.loaded + 1
         progressInterval == Max(scan.total \div 100, ProgressRows)
     IN IF loaded - scan.lastProgressUpdate >= progressInterval
           \/ loaded = scan.total
        THEN /\ events' = Append(events,
                    Ev("loading-cache", loaded, scan.total,
                       <<"Loading from cache", loaded, scan.total>>))
             /\ scan' = [scan EXCEPT !.loaded = loaded,
                                     !.lastProgressUpdate = loaded,
                                     !.txActive = TxAfterTimerWait]
             /\ pc' = "stream_timer"
             /\ UNCHANGED result
        ELSE StreamAdvance([scan EXCEPT !.loaded = loaded], events)
  /\ UNCHANGED <<store, meta, rows, alreadyStored, asteroids, idx,
                 storedSoFar, received, estimatedTotal, failedIn, failedOp, atStart>>

\* The timer fires and the loop calls cursor.continue(): it throws
\* TransactionInactiveError when the transaction is no longer active, and the
\* rejection passes through loadAsteroidData.
StreamContinue ==
  /\ pc = "stream_timer"
  /\ IF scan.txActive
     THEN /\ StreamAdvance(scan, events)
          /\ NoReject
     ELSE /\ Reject("loading-cache", "cursor.continue")
          /\ UNCHANGED <<scan, events, result>>
  /\ UNCHANGED <<store, meta, rows, alreadyStored, asteroids, idx,
                 storedSoFar, received, estimatedTotal, atStart>>

\* ------------------------------------------------------------- the download
\* fetch('/data/dataset.csv'): it throws, answers with a status that is not
\* OK, answers without a body, or answers with a body, with or without a
\* Content-Length.
Fetch ==
  /\ pc = "fetch"
  /\ \/ /\ \E cl \in {0, FileBytes} : estimatedTotal' = cl
        /\ received' = 0
        /\ pc' = "read"
        /\ NoReject
     \/ /\ Reject("downloading", "fetch")
        /\ UNCHANGED <<estimatedTotal, received>>
  /\ UNCHANGED <<store, meta, rows, alreadyStored, asteroids, idx,
                 storedSoFar, events, result, scan, atStart>>

\* reader.read(): a chunk, the end of the stream, or an error.
ReadChunk ==
  /\ pc = "read"
  /\ \/ /\ received < FileBytes
        /\ \E n \in {1, Min(MaxChunk, FileBytes - received)} :
             /\ received' = received + n
             /\ events' = Append(events,
                   Ev("downloading", received + n,
                      DisplayTotal(received + n, estimatedTotal),
                      <<"Downloading", received + n, estimatedTotal>>))
        /\ UNCHANGED pc
        /\ NoReject
     \/ /\ received = FileBytes
        /\ events' = Append(events, Downloaded(received, estimatedTotal))
        /\ pc' = "settle"
        /\ UNCHANGED received
        /\ NoReject
     \/ /\ Reject("downloading", "reader.read")
        /\ UNCHANGED <<received, events>>
  /\ UNCHANGED <<store, meta, rows, alreadyStored, asteroids, idx,
                 storedSoFar, estimatedTotal, result, scan, atStart>>

\* The 400 ms wait is over (lines 279-283).
Settle ==
  /\ pc = "settle"
  /\ events' = Append(events, Ev("parsing", 0, 100, <<"Preparing data">>))
  /\ pc' = "prepare"
  /\ UNCHANGED <<store, meta, rows, alreadyStored, asteroids, idx,
                 storedSoFar, received, estimatedTotal, result, failedIn, failedOp,
                 scan, atStart>>

\* The 50 ms wait is over: the chunks are joined and decoded (lines 285-296).
Prepare ==
  /\ pc = "prepare"
  /\ events' = Append(events, Ev("parsing", 0, 100, <<"Parsing asteroid data">>))
  /\ pc' = "parse"
  /\ UNCHANGED <<store, meta, rows, alreadyStored, asteroids, idx,
                 storedSoFar, received, estimatedTotal, result, failedIn, failedOp,
                 scan, atStart>>

\* The 10 ms wait is over: the whole file is parsed and the store loop is
\* entered (lines 298-379).
Parse ==
  /\ pc = "parse"
  /\ LET parsed == ParseFrom(rows, 1, <<>>, 0, <<>>)
         as == parsed[1]
         startIndex == StartIndex(alreadyStored)
     IN /\ asteroids' = as
        /\ events' = events \o parsed[2]
                     \o <<Ev("storing", alreadyStored, Len(as),
                             <<"Storing in database">>)>>
        /\ storedSoFar' = alreadyStored
        /\ idx' = startIndex
        /\ pc' = IF MoreBatches(startIndex, Len(as)) THEN "store" ELSE "mark"
  /\ UNCHANGED <<store, meta, rows, alreadyStored, received, estimatedTotal,
                 result, failedIn, failedOp, scan, atStart>>

\* await storeAsteroids(storeBatch): the transaction commits all of the
\* batch's puts, or it aborts, leaves the store as it was and rejects.
StoreBatch ==
  /\ pc = "store"
  /\ \/ /\ store' = storeAsteroids(store, StoreBatchAt(asteroids, idx))
        /\ storedSoFar' = StoredAfter(idx, Len(asteroids))
        /\ pc' = "checkpoint"
        /\ NoReject
     \/ /\ Reject("storing", "storeAsteroids")
        /\ store' = AbortedStore(store, StoreBatchAt(asteroids, idx))
        /\ UNCHANGED storedSoFar
  /\ UNCHANGED <<meta, rows, alreadyStored, asteroids, idx, received,
                 estimatedTotal, events, result, scan, atStart>>

\* await updatePartialLoadProgress(storedSoFar, asteroids.length), the
\* 'storing' event and the loop's step (lines 386-394).
Checkpoint ==
  /\ pc = "checkpoint"
  /\ \/ /\ meta' = updatePartialLoadProgress(meta, storedSoFar, Len(asteroids))
        /\ events' = Append(events,
              Ev("storing", storedSoFar, Len(asteroids),
                 <<"Storing", storedSoFar, Len(asteroids)>>))
        /\ idx' = idx + StoreBatchSize
        /\ pc' = IF MoreBatches(idx + StoreBatchSize, Len(asteroids))
                 THEN "store" ELSE "mark"
        /\ NoReject
     \/ /\ Reject("storing", "updatePartialLoadProgress")
        /\ UNCHANGED <<meta, events, idx>>
  /\ UNCHANGED <<store, rows, alreadyStored, asteroids, storedSoFar, received,
                 estimatedTotal, result, scan, atStart>>

\* await markDataLoaded(), the 'complete' event and the return (lines 396-405).
MarkLoaded ==
  /\ pc = "mark"
  /\ \/ /\ meta' = markDataLoaded(meta)
        /\ events' = Append(events,
              Ev("complete", Len(asteroids), Len(asteroids),
                 <<"Loaded", Len(asteroids)>>))
        /\ result' = Len(asteroids)
        /\ pc' = "done"
        /\ NoReject
     \/ /\ Reject("storing", "markDataLoaded")
        /\ UNCHANGED <<meta, events, result>>
  /\ UNCHANGED <<store, rows, alreadyStored, asteroids, idx, storedSoFar,
                 received, estimatedTotal, scan, atStart>>

\* The page is closed or reloaded, at any point of a run or after it: what
\* the run held in memory is gone, an open transaction is aborted, and the
\* database keeps what was committed.
Reload ==
  /\ pc # "idle"
  /\ pc' = "idle"
  /\ alreadyStored' = 0
  /\ asteroids' = <<>>
  /\ idx' = 0
  /\ storedSoFar' = 0
  /\ received' = 0
  /\ estimatedTotal' = 0
  /\ events' = <<>>
  /\ result' = -1
  /\ failedIn' = ""
  /\ failedOp' = ""
  /\ scan' = NoScan
  /\ UNCHANGED <<store, meta, rows, atStart>>

\* ------------------------------------------------- the instance managers
\* AsteroidBeltOptimized (three/AsteroidBeltOptimized.ts) and AsteroidBeltBVH
\* (three/AsteroidBeltBVH.ts). A loadAsteroids call is given the first n
\* records of the store; a record is named by its place in that list.
VARIABLES
  impl,              \* which class the manager is: "Optimized" or "BVH"
  loadingAborted,
  batchedMesh,       \* this.batchedMesh: a place in `meshes`, 0 for null
  meshes,            \* every BatchedMesh created: capacity and instances
  sceneMeshes,       \* the meshes attached to the scene
  asteroidData,      \* this.asteroidData: the call that set it and its length
  positionMap,       \* instance id or index -> record
  instancePositions, \* AsteroidBeltBVH only: one entry per position pushed
  calls,             \* the loadAsteroids calls made, in order
  late,              \* history: calls that added an instance after a later
                     \* call had begun to build
  catalogue,         \* the records handed to loadAsteroids, in store order
  nearbyLabels,      \* AsteroidBeltBVH only: the keys of this.nearbyLabels
  lod,               \* history: the camera of the last updateLOD call and
                     \* the number of positions it saw
  disposed           \* history: whether dispose() or abort() was called, and
                     \* the meshes and the scene as that call left them

loadVars == <<impl, loadingAborted, batchedMesh, meshes, sceneMeshes,
              asteroidData, positionMap, instancePositions, calls, late,
              catalogue, nearbyLabels, lod, disposed>>

NotDisposed == [called |-> FALSE, meshes |-> <<>>, scene |-> {}]

\* Most loadAsteroids calls made on one manager.
MaxLoads == 2
\* Most records given to one call.
MaxLoadLen == 4
\* CHUNK_SIZE (5000 in AsteroidBeltOptimized, 1000 in AsteroidBeltBVH), scaled.
ChunkSize == 2

\* Most records of a catalogue that are not the plain main-belt record.
MaxOdd == 1

EmptyMap == [k \in {} |-> 0]

\* Orbital elements of a record, in integers: a10 is ten times the semi-major
\* axis in AU, e10 ten times the eccentricity, ma the mean anomaly in
\* degrees. The other angles (i, om, w) are 0 throughout, so every position
\* lies on the x axis. A missing value is 0, as parseRow leaves it.
El(a10, e10, ma) == [a10 |-> a10, e10 |-> e10, ma |-> ma]
Belt == El(27, 1, 180)
Elems == {Belt, El(27, 1, 0), El(27, 0, 180), El(0, 1, 180),
          El(-10, 1, 180), El(400, 1, 180)}

Catalogues ==
  {c \in [1..MaxLoadLen -> Elems] :
     Cardinality({k \in 1..MaxLoadLen : c[k] # Belt}) <= MaxOdd}

\* What Math.random() * 360 may give, of the angles whose sine is 0.
RandomAngles == {0, 180}

\* The cosine of 0 and of 180 degrees.
Cos(deg) == IF deg = 0 THEN 1 ELSE -1

\* x || d of the source: d when x is 0 (or NaN, or missing).
OrElse(x, d) == IF x = 0 THEN d ELSE x

\* AsteroidBeltOptimized.orbitalToCartesian, in scene units, for an anomaly
\* of 0 or 180 degrees, where Kepler's iteration leaves E = M and nu = M:
\* r = a (1 - e cos E), x = r cos nu, times AU = 100.
orbitalToCartesian(a10, e10, ma) ==
  <<Cos(ma) * a10 * (10 - e10 * Cos(ma)), 0, 0>>

\* The position AsteroidBeltOptimized gives a record (lines 202-209): a, e
\* and ma of 0 are replaced by 2.5, 0.1 and a random angle.
PositionOptimized(el, rnd) ==
  orbitalToCartesian(OrElse(el.a10, 25), OrElse(el.e10, 1), OrElse(el.ma, rnd))

\* The position AsteroidBeltBVH gives a record (lines 222-249): a and e are
\* taken as they are, ma of 0 is replaced by a random angle;
\* x = a (cos E - e) with a = asteroid.a * AU.
PositionBVH(el, rnd) ==
  <<el.a10 * (10 * Cos(OrElse(el.ma, rnd)) - el.e10), 0, 0>>

Position(kind, el, rnd) ==
  IF kind = "Optimized" THEN PositionOptimized(el, rnd) ELSE PositionBVH(el, rnd)

\* What one processChunk loop leaves: the mesh's instances, the two tables,
\* and whether addInstance threw.
LoopState(instances, pmap, ipos, threw) ==
  [instances |-> instances, pmap |-> pmap, ipos |-> ipos, threw |-> threw]

\* The for loop of processChunk over records from..to of call l, run on the
\* mesh `this.batchedMesh` names at that moment. BatchedMesh.addInstance
\* throws once the mesh holds as many instances as it was created for.
\* AsteroidBeltOptimized maps the new instance id to the record after adding
\* it; AsteroidBeltBVH pushes the position and maps the index i before.
\* draws[k] is what Math.random() * 360 gives for the k-th record.
RECURSIVE ChunkLoop(_, _, _, _, _, _, _)
ChunkLoop(kind, st, cap, l, from, to, draws) ==
  IF from > to \/ st.threw THEN st
  ELSE
    LET full == Len(st.instances) >= cap
        pos == Position(kind, catalogue[from], draws[from])
        inst == [by |-> l, rec |-> from, pos |-> pos]
        added == IF full THEN st.instances ELSE Append(st.instances, inst)
        next ==
          IF kind = "Optimized"
          THEN LoopState(added,
                         IF full THEN st.pmap
                         ELSE (Len(st.instances) :> from) @@ st.pmap,
                         st.ipos, full)
          ELSE LoopState(added, ((from - 1) :> from) @@ st.pmap,
                         Append(st.ipos, pos), full)
    IN ChunkLoop(kind, next, cap, l, from + 1, to, draws)

\* Some call after l has begun to build its mesh.
NewerBuilding(l) ==
  \E k \in (l + 1)..Len(calls) : calls[k].pc \notin {"wait", "returned"}

LoadInit ==
  /\ impl \in {"Optimized", "BVH"}
  /\ catalogue \in Catalogues
  /\ loadingAborted = FALSE
  /\ batchedMesh = 0
  /\ meshes = <<>>
  /\ sceneMeshes = {}
  /\ asteroidData = [by |-> 0, n |-> 0]
  /\ positionMap = EmptyMap
  /\ instancePositions = <<>>
  /\ calls = <<>>
  /\ late = {}
  /\ nearbyLabels = {}
  /\ lod = [cam |-> <<0, 0, 0>>, n |-> -1]
  /\ disposed = NotDisposed

\* processChunk of call l, entered with the flag clear, on the mesh m that
\* this.batchedMesh names, and what follows it: the next chunk is scheduled,
\* or the load ends by attaching this.batchedMesh to the scene, or the loop
\* threw and the call is over.
RunChunk(l, m, pmap, ipos, sceneNow) ==
  \E draws \in [(calls[l].processed + 1)..
                 Min(calls[l].processed + ChunkSize, calls[l].total)
                   -> RandomAngles] :
  LET c == calls[l]
      chunkEnd == Min(c.processed + ChunkSize, c.total)
      st == ChunkLoop(impl, LoopState(meshes[m].instances, pmap, ipos, FALSE),
                      meshes[m].cap, l, c.processed + 1, chunkEnd, draws)
      addedAny == Len(st.instances) > Len(meshes[m].instances)
  IN /\ meshes' = [meshes EXCEPT ![m].instances = st.instances]
     /\ positionMap' = st.pmap
     /\ instancePositions' = st.ipos
     /\ late' = IF addedAny /\ NewerBuilding(l) THEN late \cup {l} ELSE late
     /\ IF st.threw
        THEN /\ calls' = [calls EXCEPT ![l].pc = "threw"]
             /\ sceneMeshes' = sceneNow
        ELSE IF chunkEnd < c.total
        THEN /\ calls' = [calls EXCEPT ![l].processed = chunkEnd,
                                       ![l].pc = "next"]
             /\ sceneMeshes' = sceneNow
        ELSE /\ calls' = [calls EXCEPT ![l].processed = chunkEnd,
                                       ![l].pc = "done"]
             /\ sceneMeshes' = sceneNow \cup {m}

\* AsteroidBeltOptimized.loadAsteroids is called: it raises the flag and
\* waits 10 ms (lines 109-112).
LoadOptimized ==
  /\ impl = "Optimized"
  /\ Len(calls) < MaxLoads
  /\ \E n \in 0..MaxLoadLen :
       calls' = Append(calls, [total |-> n, processed |-> 0, pc |-> "wait"])
  /\ loadingAborted' = TRUE
  /\ UNCHANGED <<catalogue, nearbyLabels, lod, disposed, impl, batchedMesh, meshes, sceneMeshes, asteroidData,
                 positionMap, instancePositions, late>>

\* The 10 ms are over (lines 113-259): the flag is cleared, the mesh at hand
\* is removed and disposed of, a new one is created and the first chunk is
\* processed. Timers of equal delay fire in the order they were set.
AbortWaitOver ==
  \E l \in 1..Len(calls) :
    /\ impl = "Optimized"
    /\ calls[l].pc = "wait"
    /\ \A k \in 1..(l - 1) : calls[k].pc # "wait"
    /\ loadingAborted' = FALSE
    /\ asteroidData' = [by |-> l, n |-> calls[l].total]
    /\ IF calls[l].total = 0
       THEN /\ batchedMesh' = 0
            /\ sceneMeshes' = sceneMeshes \ {batchedMesh}
            /\ positionMap' = EmptyMap
            /\ calls' = [calls EXCEPT ![l].pc = "done"]
            /\ UNCHANGED <<meshes, instancePositions, late>>
       ELSE \E draws \in [1..Min(ChunkSize, calls[l].total) -> RandomAngles] :
            LET m == Len(meshes) + 1
            IN /\ batchedMesh' = m
               /\ LET created == Append(meshes, [cap |-> calls[l].total,
                                                 instances |-> <<>>])
                      c == calls[l]
                      chunkEnd == Min(ChunkSize, c.total)
                      st == ChunkLoop(impl, LoopState(<<>>, EmptyMap,
                                                      instancePositions, FALSE),
                                      c.total, l, 1, chunkEnd, draws)
                  IN /\ meshes' = [created EXCEPT ![m].instances = st.instances]
                     /\ positionMap' = st.pmap
                     /\ instancePositions' = st.ipos
                     /\ late' = late
                     /\ IF chunkEnd < c.total
                        THEN /\ calls' = [calls EXCEPT ![l].processed = chunkEnd,
                                                       ![l].pc = "next"]
                             /\ sceneMeshes' = sceneMeshes \ {batchedMesh}
                        ELSE /\ calls' = [calls EXCEPT ![l].processed = chunkEnd,
                                                       ![l].pc = "done"]
                             /\ sceneMeshes' = (sceneMeshes \ {batchedMesh}) \cup {m}
    /\ UNCHANGED <<catalogue, nearbyLabels, lod, disposed, impl>>

\* The animation frame of a scheduled chunk comes (lines 190-259): the loop
\* leaves at once when the flag is up; with the flag clear it adds to the mesh
\* this.batchedMesh names now, and throws when that is null.
FrameOptimized ==
  \E l \in 1..Len(calls) :
    /\ impl = "Optimized"
    /\ calls[l].pc = "next"
    /\ IF loadingAborted
       THEN /\ calls' = [calls EXCEPT ![l].pc = "aborted"]
            /\ UNCHANGED <<meshes, sceneMeshes, positionMap,
                           instancePositions, late>>
       ELSE IF batchedMesh = 0
       THEN /\ calls' = [calls EXCEPT ![l].pc = "threw"]
            /\ UNCHANGED <<meshes, sceneMeshes, positionMap,
                           instancePositions, late>>
       ELSE RunChunk(l, batchedMesh, positionMap, instancePositions, sceneMeshes)
    /\ UNCHANGED <<catalogue, nearbyLabels, lod, disposed, impl, loadingAborted, batchedMesh, asteroidData>>

\* AsteroidBeltBVH.loadAsteroids is called (lines 165-315): it returns at
\* once when the flag is up; else it creates a mesh, leaving the one at hand
\* where it is, and processes the first chunk.
LoadBVH ==
  /\ impl = "BVH"
  /\ Len(calls) < MaxLoads
  /\ \E n \in 0..MaxLoadLen :
     \E draws \in [1..Min(ChunkSize, n) -> RandomAngles] :
       LET l == Len(calls) + 1
           m == Len(meshes) + 1
           chunkEnd == Min(ChunkSize, n)
           st == ChunkLoop(impl, LoopState(<<>>, positionMap,
                                           instancePositions, FALSE),
                           n, l, 1, chunkEnd, draws)
       IN IF loadingAborted
          THEN /\ calls' = Append(calls, [total |-> n, processed |-> 0,
                                          pc |-> "returned"])
               /\ UNCHANGED <<batchedMesh, meshes, sceneMeshes, asteroidData,
                              positionMap, instancePositions>>
          ELSE IF n = 0
          THEN /\ calls' = Append(calls, [total |-> 0, processed |-> 0,
                                          pc |-> "done"])
               /\ asteroidData' = [by |-> l, n |-> 0]
               /\ UNCHANGED <<batchedMesh, meshes, sceneMeshes, positionMap,
                              instancePositions>>
          ELSE /\ asteroidData' = [by |-> l, n |-> n]
               /\ batchedMesh' = m
               /\ meshes' = Append(meshes, [cap |-> n, instances |-> st.instances])
               /\ positionMap' = st.pmap
               /\ instancePositions' = st.ipos
               /\ IF chunkEnd < n
                  THEN /\ calls' = Append(calls, [total |-> n,
                                                  processed |-> chunkEnd,
                                                  pc |-> "next"])
                       /\ UNCHANGED sceneMeshes
                  ELSE /\ calls' = Append(calls, [total |-> n,
                                                  processed |-> chunkEnd,
                                                  pc |-> "done"])
                       /\ sceneMeshes' = sceneMeshes \cup {m}
  /\ UNCHANGED <<catalogue, nearbyLabels, lod, disposed, impl, loadingAborted, late>>

\* The 1 ms timer of a scheduled chunk fires (lines 213-315).
TimerBVH ==
  \E l \in 1..Len(calls) :
    /\ impl = "BVH"
    /\ calls[l].pc = "next"
    /\ IF loadingAborted
       THEN /\ calls' = [calls EXCEPT ![l].pc = "aborted"]
            /\ UNCHANGED <<meshes, sceneMeshes, positionMap,
                           instancePositions, late>>
       ELSE RunChunk(l, batchedMesh, positionMap, instancePositions, sceneMeshes)
    /\ UNCHANGED <<catalogue, nearbyLabels, lod, disposed, impl, loadingAborted, batchedMesh, asteroidData>>

\* dispose(): the flag is raised and the mesh at hand is taken off the
\* scene. AsteroidBeltOptimized also drops the mesh, the map and the records
\* (lines 291-300); AsteroidBeltBVH also removes the labels and keeps its
\* fields (lines 435-460). AsteroidBeltBVH.abort() only raises the flag.
Dispose ==
  /\ ~disposed.called
  /\ loadingAborted' = TRUE
  /\ \/ /\ sceneMeshes' = sceneMeshes \ {batchedMesh}
        /\ IF impl = "Optimized"
           THEN /\ batchedMesh' = 0
                /\ positionMap' = EmptyMap
                /\ asteroidData' = [by |-> 0, n |-> 0]
                /\ UNCHANGED nearbyLabels
           ELSE /\ nearbyLabels' = {}
                /\ UNCHANGED <<batchedMesh, positionMap, asteroidData>>
     \/ /\ impl = "BVH"
        /\ UNCHANGED <<sceneMeshes, batchedMesh, positionMap, asteroidData,
                       nearbyLabels>>
  /\ disposed' = [called |-> TRUE, meshes |-> meshes, scene |-> sceneMeshes']
  /\ UNCHANGED <<impl, meshes, instancePositions, calls, late, catalogue, lod>>

\* ----------------------------------------- AsteroidBeltBVH.updateLOD
\* The belt's centre line, 2.7 * AU, in scene units.
BeltCenter == 270
\* nearbyThreshold: the radius within which an instance may be labelled.
NearbyThreshold == 100
\* The camera's distance from the belt's centre line below which updateLOD
\* looks at the positions at all, and below which it looks at more of them.
GateDist == 500
NearGateDist == 100
\* The number of labels kept: slice(0, 5).
NearbyLimit == 5
\* maxChecks close to the centre line and away from it (20000 and 5000 in the
\* source), scaled.
MaxChecksNear == 4
MaxChecksFar == 1

\* The camera positions tried.
Cameras == {<<-297, 0, 0>>, <<-290, 0, 0>>, <<-4400, 0, 0>>}

\* The square of the distance between two points.
Dist2(p, q) ==
  (p[1] - q[1]) * (p[1] - q[1]) + (p[2] - q[2]) * (p[2] - q[2])
    + (p[3] - q[3]) * (p[3] - q[3])

\* minDist = |sqrt(x^2 + z^2) - beltCenter| < d, for d > 0, without the root.
MinDistBelow(cam, d) ==
  LET r2 == cam[1] * cam[1] + cam[3] * cam[3]
  IN /\ r2 < (BeltCenter + d) * (BeltCenter + d)
     /\ (d > BeltCenter \/ r2 > (BeltCenter - d) * (BeltCenter - d))

\* step = max(1, floor(length / maxChecks)).
Step(cam, length) ==
  Max(1, length \div (IF MinDistBelow(cam, NearGateDist)
                      THEN MaxChecksNear ELSE MaxChecksFar))

\* The for loop of updateLOD from index i on: the indices it looks at that
\* lie within the threshold, in the order it finds them.
RECURSIVE NearbyFrom(_, _, _, _)
NearbyFrom(cam, ipos, i, step) ==
  IF i >= Len(ipos) THEN <<>>
  ELSE (IF Dist2(cam, ipos[i + 1]) < NearbyThreshold * NearbyThreshold
        THEN <<i>> ELSE <<>>) \o NearbyFrom(cam, ipos, i + step, step)

\* nearbyAsteroids of updateLOD.
NearbyAsteroids(cam, ipos) ==
  IF MinDistBelow(cam, GateDist)
  THEN NearbyFrom(cam, ipos, 0, Step(cam, Len(ipos)))
  ELSE <<>>

\* sort by distance (a stable sort) and slice(0, limit): the indices of the
\* closest entries, an earlier entry first among equals.
RECURSIVE Closest(_, _, _, _)
Closest(cam, ipos, cands, limit) ==
  IF limit = 0 \/ cands = <<>> THEN {}
  ELSE LET k == CHOOSE k \in 1..Len(cands) :
                  \A j \in 1..Len(cands) :
                    \/ Dist2(cam, ipos[cands[k] + 1]) < Dist2(cam, ipos[cands[j] + 1])
                    \/ /\ Dist2(cam, ipos[cands[k] + 1]) = Dist2(cam, ipos[cands[j] + 1])
                       /\ k <= j
           rest == SubSeq(cands, 1, k - 1) \o SubSeq(cands, k + 1, Len(cands))
       IN {cands[k]} \cup Closest(cam, ipos, rest, limit - 1)

\* updateNearbyLabels: labels of indices no longer among the closest are
\* removed; a closest index gets a label when positionMap has a record for it.
updateNearbyLabels(labels, closest, pmap) ==
  (labels \cap closest) \cup {i \in closest : i \in DOMAIN pmap}

\* updateLOD(camera), called by the controller on every frame; it returns at
\* once when there is no mesh.
UpdateLOD ==
  /\ impl = "BVH"
  /\ batchedMesh # 0
  /\ \E cam \in Cameras :
       /\ nearbyLabels' =
            updateNearbyLabels(
              nearbyLabels,
              Closest(cam, instancePositions,
                      NearbyAsteroids(cam, instancePositions), NearbyLimit),
              positionMap)
       /\ lod' = [cam |-> cam, n |-> Len(instancePositions)]
  /\ UNCHANGED <<impl, loadingAborted, batchedMesh, meshes, sceneMeshes,
                 asteroidData, positionMap, instancePositions, calls, late,
                 catalogue, disposed>>

\* ------------------------------------------ the queries of indexedDB.ts
VARIABLES
  pageCall,    \* the last query, when it was a getAsteroidsByPage call and
               \* no write has come since: its arguments and what it returned
  searchCall   \* the same for searchAsteroids

queryVars == <<pageCall, searchCall>>

\* Largest page number and page size asked for.
MaxPage == 2
MaxPageSize == 3

\* A string is a sequence of characters. toLowerCase of a character.
ToLowerChar(ch) == CASE ch = "A" -> "a" [] ch = "B" -> "b" [] OTHER -> ch
toLowerCase(str) == [k \in 1..Len(str) |-> ToLowerChar(str[k])]

\* String.prototype.includes.
includes(str, q) ==
  \E k \in 0..(Len(str) - Len(q)) : SubSeq(str, k + 1, k + Len(q)) = q

\* The records the queries are tried on: names in one of the three fields,
\* in either case, and one record whose fields only together spell "ab".
QRec(id, name, pdes, full_name) ==
  [id |-> id, name |-> name, pdes |-> pdes, full_name |-> full_name]
QRecords ==
  { QRec(1, <<"A", "b">>, <<>>, <<>>),
    QRec(2, <<>>, <<"a", "B">>, <<>>),
    QRec(3, <<>>, <<>>, <<"b", "a", "b">>),
    QRec(4, <<"b">>, <<"a">>, <<"B">>),
    QRec(5, <<"b", "a">>, <<>>, <<"A">>) }
Queries == {<<>>, <<"a">>, <<"A", "B">>, <<"b", "a">>}

\* Array.prototype.slice(start, end) for 0 <= start.
slice(arr, start, end) == SubSeq(arr, start + 1, Min(end, Len(arr)))

\* skipCount of getAsteroidsByPage.
SkipCountIgnoresSize(page, pageSize) == page
SkipCount(page, pageSize) == page * pageSize

\* The while loop of getAsteroidsByPage over the cursor's records from
\* position pos on (lines 131-141).
RECURSIVE PageLoop(_, _, _, _, _, _)
PageLoop(recs, pos, skipped, skipCount, results, pageSize) ==
  IF pos > Len(recs) THEN results
  ELSE IF skipped < skipCount
  THEN PageLoop(recs, pos + 1, skipped + 1, skipCount, results, pageSize)
  ELSE IF Len(results) >= pageSize THEN results
  ELSE PageLoop(recs, pos + 1, skipped, skipCount,
                Append(results, recs[pos]), pageSize)

getAsteroidsByPage(s, page, pageSize) ==
  PageLoop(InKeyOrder(s), 1, 0, SkipCount(page, pageSize), <<>>, pageSize)

\* The test of searchAsteroids on one record (lines 160-164).
MatchesNameOnly(asteroid, lowerQuery) ==
  includes(toLowerCase(asteroid.name), lowerQuery)
Matches(asteroid, lowerQuery) ==
  \/ includes(toLowerCase(asteroid.name), lowerQuery)
  \/ includes(toLowerCase(asteroid.pdes), lowerQuery)
  \/ includes(toLowerCase(asteroid.full_name), lowerQuery)

\* The while loop of searchAsteroids: allMatches.
RECURSIVE AllMatches(_, _, _)
AllMatches(recs, pos, lowerQuery) ==
  IF pos > Len(recs) THEN <<>>
  ELSE (IF Matches(recs[pos], lowerQuery) THEN <<recs[pos]>> ELSE <<>>)
         \o AllMatches(recs, pos + 1, lowerQuery)

searchAsteroids(s, query, page, pageSize) ==
  LET allMatches == AllMatches(InKeyOrder(s), 1, toLowerCase(query))
      start == page * pageSize
  IN [results |-> slice(allMatches, start, start + pageSize),
      total |-> Len(allMatches)]

NoCall == [made |-> FALSE]

NoQuery == pageCall = NoCall /\ searchCall = NoCall

GetPage ==
  /\ \E page \in 0..MaxPage, pageSize \in 0..MaxPageSize :
       pageCall' = [made |-> TRUE, page |-> page, pageSize |-> pageSize,
                    results |-> getAsteroidsByPage(store, page, pageSize)]
  /\ searchCall' = NoCall
  /\ UNCHANGED store

Search ==
  /\ \E query \in Queries, page \in 0..MaxPage, pageSize \in 0..MaxPageSize :
       searchCall' = [made |-> TRUE, query |-> query, page |-> page,
                      pageSize |-> pageSize,
                      answer |-> searchAsteroids(store, query, page, pageSize)]
  /\ pageCall' = NoCall
  /\ UNCHANGED store

\* A write between two queries: storeAsteroids with one record.
QueryWrite ==
  /\ \E r \in QRecords : store' = storeAsteroids(store, <<r>>)
  /\ store' # store
  /\ pageCall' = NoCall
  /\ searchCall' = NoCall

\* ------------------------------------ SceneController: culling and freeze
\* The controller's frame, its culling switches and the asteroid mesh's
\* onBeforeRender hook, which is where the mesh culls its instances. The
\* load of the mesh is taken in its two ends: the mesh is created, the load
\* finishes.
VARIABLES
  freeze,                  \* SceneController.freeze and AsteroidBeltBVH.freeze
  useFrustumCulling,
  beltMesh,                \* "none", "loading" (created), "loaded" (in scene)
  onBeforeRender,          \* the mesh's hook: "cull" or "noop"
  originalOnBeforeRender,  \* "null", "cull" or "noop"
  bvhRef,                  \* "null" or "bvh"
  meshBvh,                 \* the mesh's bvh property: "null" or "bvh"
  view,                    \* where the camera looks
  objVisible,              \* the visible flag of a scene object
  meshCulledFor,           \* the view the mesh last culled its instances for
  frozenAt,                \* history: the decisions when freeze was set
  meshVisible,             \* the asteroid mesh's visible flag
  mainBeltVisible,         \* the visible flags of the decorative belts
  kuiperBeltVisible,
  useLOD,
  asteroidsHidden          \* history: the last setAsteroidsVisible call
                           \* was setAsteroidsVisible(false)

visVars == <<meshVisible, mainBeltVisible, kuiperBeltVisible, useLOD,
             asteroidsHidden>>

sceneVars == <<freeze, useFrustumCulling, beltMesh, onBeforeRender,
               originalOnBeforeRender, bvhRef, meshBvh, view, objVisible,
               meshCulledFor, frozenAt, visVars>>

\* The views of the camera: in view 1 the scene object is in the frustum, in
\* the others it is not.
Views == {1, 2}
InFrustum(v) == v = 1
\* isLookingAtXZPlane: in view 1 the camera looks at the plane of the belts.
LookingAtXZ(v) == v = 1

\* The decisions freeze is to hold still.
Decisions == <<objVisible, meshCulledFor>>

SceneInit ==
  /\ freeze = FALSE
  /\ useFrustumCulling = TRUE
  /\ beltMesh = "none"
  /\ onBeforeRender = "cull"
  /\ originalOnBeforeRender = "null"
  /\ bvhRef = "null"
  /\ meshBvh = "null"
  /\ view = 1
  /\ objVisible = TRUE
  /\ meshCulledFor = 0
  /\ frozenAt = <<TRUE, 0>>
  /\ meshVisible = TRUE
  /\ mainBeltVisible = TRUE
  /\ kuiperBeltVisible = TRUE
  /\ useLOD = TRUE
  /\ asteroidsHidden = FALSE

\* SceneController.setFreeze and AsteroidBeltBVH.setFreeze: with a mesh at
\* hand the hook is replaced by an empty one, or put back from
\* originalOnBeforeRender when that is set.
SetFreeze ==
  \E f \in BOOLEAN :
    /\ freeze' = f
    /\ onBeforeRender' =
         IF beltMesh = "none" THEN onBeforeRender
         ELSE IF f THEN "noop"
         ELSE IF originalOnBeforeRender # "null" THEN originalOnBeforeRender
         ELSE onBeforeRender
    /\ frozenAt' = IF f /\ ~freeze THEN Decisions ELSE frozenAt
    /\ UNCHANGED <<useFrustumCulling, beltMesh, originalOnBeforeRender, bvhRef,
                   meshBvh, view, objVisible, meshCulledFor, visVars>>

\* SceneController.setFrustumCullingEnabled: the mesh's bvh is set or
\* cleared, and when culling is switched off showAllObjects makes every
\* object visible.
SetFrustumCullingEnabled ==
  \E enabled \in BOOLEAN :
    /\ useFrustumCulling' = enabled
    /\ meshBvh' = IF beltMesh = "none" THEN meshBvh
                  ELSE IF enabled THEN bvhRef ELSE "null"
    /\ objVisible' = IF enabled THEN objVisible ELSE TRUE
    /\ meshVisible' = IF ~enabled /\ beltMesh = "loaded" THEN TRUE
                      ELSE meshVisible
    /\ mainBeltVisible' = IF enabled THEN mainBeltVisible ELSE TRUE
    /\ kuiperBeltVisible' = IF enabled THEN kuiperBeltVisible ELSE TRUE
    /\ UNCHANGED <<freeze, beltMesh, onBeforeRender, originalOnBeforeRender,
                   bvhRef, view, meshCulledFor, frozenAt, useLOD,
                   asteroidsHidden>>

\* loadAsteroids creates the mesh (part_003:191).
BeltLoadStart ==
  /\ beltMesh = "none"
  /\ beltMesh' = "loading"
  /\ onBeforeRender' = "cull"
  /\ meshBvh' = "null"
  /\ meshVisible' = TRUE
  /\ UNCHANGED <<freeze, useFrustumCulling, originalOnBeforeRender, bvhRef,
                 view, objVisible, meshCulledFor, frozenAt, mainBeltVisible,
                 kuiperBeltVisible, useLOD, asteroidsHidden>>

\* loadAsteroids finishes (part_003:299-312): the BVH is computed and kept,
\* the hook the mesh has now is kept as the original, the mesh joins the
\* scene.
BeltLoadFinish ==
  /\ beltMesh = "loading"
  /\ beltMesh' = "loaded"
  /\ bvhRef' = "bvh"
  /\ meshBvh' = "bvh"
  /\ originalOnBeforeRender' = onBeforeRender
  /\ UNCHANGED <<freeze, useFrustumCulling, onBeforeRender, view, objVisible,
                 meshCulledFor, frozenAt, visVars>>

\* One frame (update): the camera may have moved; performSceneCulling sets
\* the visible flags unless culling is off or frozen; rendering calls the
\* hook of the mesh in the scene.
Frame ==
  \E v \in Views :
    /\ view' = v
    /\ objVisible' = IF ~useFrustumCulling \/ freeze THEN objVisible
                     ELSE InFrustum(v)
    /\ meshCulledFor' = IF beltMesh = "loaded" /\ onBeforeRender = "cull"
                        THEN v ELSE meshCulledFor
    /\ mainBeltVisible' = IF ~useFrustumCulling \/ freeze THEN mainBeltVisible
                          ELSE LookingAtXZ(v)
    /\ kuiperBeltVisible' = IF ~useFrustumCulling \/ freeze
                            THEN kuiperBeltVisible
                            ELSE LookingAtXZ(v)
    /\ UNCHANGED <<freeze, useFrustumCulling, beltMesh, onBeforeRender,
                   originalOnBeforeRender, bvhRef, meshBvh, frozenAt,
                   meshVisible, useLOD, asteroidsHidden>>

\* SceneController.setAsteroidsVisible (lines 433-443): the flag of the mesh
\* at hand, if there is one, and of the two decorative belts.
SetAsteroidsVisible ==
  \E visible \in BOOLEAN :
    /\ meshVisible' = IF beltMesh = "none" THEN meshVisible ELSE visible
    /\ mainBeltVisible' = visible
    /\ kuiperBeltVisible' = visible
    /\ asteroidsHidden' = ~visible
    /\ UNCHANGED <<freeze, useFrustumCulling, beltMesh, onBeforeRender,
                   originalOnBeforeRender, bvhRef, meshBvh, view, objVisible,
                   meshCulledFor, frozenAt, useLOD>>

\* SceneController.setLODEnabled and AsteroidBeltBVH.setLODEnabled.
SetLODEnabled ==
  \E enabled \in BOOLEAN :
    /\ useLOD' = enabled
    /\ UNCHANGED <<freeze, useFrustumCulling, beltMesh, onBeforeRender,
                   originalOnBeforeRender, bvhRef, meshBvh, view, objVisible,
                   meshCulledFor, frozenAt, meshVisible, mainBeltVisible,
                   kuiperBeltVisible, asteroidsHidden>>

NoScene == SceneInit

\* ------------------------------------------------- App: the loading screen
VARIABLES
  appPc,             \* where loadData is: "init", "loading", "stats",
                     \* "failedWait", "shown"
  isLoading,
  isLoadingStarted,
  loadProgress,      \* what the catch block published, <<>> before
  sceneStarted,      \* the scene effect has run
  sceneRecords,      \* what getAllAsteroids gave the scene
  sessions,          \* page loads so far
  effectRuns,        \* history: runs of the load effect in this session
  loadRuns           \* history: loadAsteroidData calls in this session

appVars == <<appPc, isLoading, isLoadingStarted, loadProgress, sceneStarted,
             sceneRecords, sessions, effectRuns, loadRuns>>

\* Most runs of the load effect in one session (two under StrictMode).
MaxEffectRuns == 2

\* The load effect's first line: `if (isLoadingStarted.current) return;`
ReturnsEarlyNever(started) == FALSE
ReturnsEarly(started) == started

\* Most page loads, and most data lines of the file, while the App is followed.
MaxSessions == 2
MaxAppRows == 1

\* The message of the catch block (App, loadData).
FailureMessage ==
  Ev("complete", 0, 100, <<"Failed to load data. Using demo mode.">>)

\* The catch block of loadData: the message is published and a timer of one
\* second is set that dismisses the loading screen.
catchHandlerNoTimer == [loadProgress |-> <<FailureMessage>>, appPc |-> "caught"]
catchHandler == [loadProgress |-> <<FailureMessage>>, appPc |-> "failedWait"]

AppInit ==
  /\ appPc = "init"
  /\ isLoading = TRUE
  /\ isLoadingStarted = FALSE
  /\ loadProgress = <<>>
  /\ sceneStarted = FALSE
  /\ sceneRecords = {}
  /\ sessions = 1
  /\ effectRuns = 0
  /\ loadRuns = 0

NoApp == AppInit

\* The load effect runs, on mount and on StrictMode's second mount: it
\* returns when isLoadingStarted is set, else it sets it and calls loadData.
AppMount ==
  /\ effectRuns < MaxEffectRuns
  /\ effectRuns' = effectRuns + 1
  /\ IF ReturnsEarly(isLoadingStarted)
     THEN UNCHANGED <<isLoadingStarted, appPc, loadRuns>>
     ELSE /\ isLoadingStarted' = TRUE
          /\ appPc' = "loading"
          /\ loadRuns' = loadRuns + 1
  /\ UNCHANGED <<isLoading, loadProgress, sceneStarted, sceneRecords, sessions>>

\* await loadAsteroidData(...) resolves: getStatistics is called.
AppLoadResolved ==
  /\ appPc = "loading"
  /\ pc = "done"
  /\ appPc' = "stats"
  /\ UNCHANGED <<isLoading, isLoadingStarted, loadProgress, sceneStarted,
                 sceneRecords, sessions,
                 effectRuns, loadRuns>>

\* await loadAsteroidData(...) rejects: the catch block.
AppLoadRejected ==
  /\ appPc = "loading"
  /\ pc = "failed"
  /\ loadProgress' = catchHandler.loadProgress
  /\ appPc' = catchHandler.appPc
  /\ UNCHANGED <<isLoading, isLoadingStarted, sceneStarted, sceneRecords,
                 sessions,
                 effectRuns, loadRuns>>

\* await getStatistics() resolves, and setIsLoading(false); or it rejects,
\* and the catch block runs.
AppStats ==
  /\ appPc = "stats"
  /\ \/ /\ isLoading' = FALSE
        /\ appPc' = "shown"
        /\ UNCHANGED loadProgress
     \/ /\ loadProgress' = catchHandler.loadProgress
        /\ appPc' = catchHandler.appPc
        /\ UNCHANGED isLoading
  /\ UNCHANGED <<isLoadingStarted, sceneStarted, sceneRecords, sessions,
                 effectRuns, loadRuns>>

\* The timer of the catch block fires: setIsLoading(false).
AppDismiss ==
  /\ appPc = "failedWait"
  /\ isLoading' = FALSE
  /\ appPc' = "shown"
  /\ UNCHANGED <<isLoadingStarted, loadProgress, sceneStarted, sceneRecords,
                 sessions,
                 effectRuns, loadRuns>>

\* The scene effect, once isLoading is false: the controller is created and
\* getAllAsteroids hands it the records of the store.
AppScene ==
  /\ ~isLoading
  /\ ~sceneStarted
  /\ sceneStarted' = TRUE
  /\ sceneRecords' = store
  /\ UNCHANGED <<appPc, isLoading, isLoadingStarted, loadProgress, sessions,
                 effectRuns, loadRuns>>

\* The page is loaded anew: the App starts over on the database as it is.
AppReload ==
  /\ sessions < MaxSessions
  /\ Reload
  /\ appPc' = "init"
  /\ isLoading' = TRUE
  /\ isLoadingStarted' = FALSE
  /\ loadProgress' = <<>>
  /\ sceneStarted' = FALSE
  /\ sceneRecords' = {}
  /\ sessions' = sessions + 1
  /\ effectRuns' = 0
  /\ loadRuns' = 0

\* ------------------------------------------- the enrichment of one row
\* dataLoader.ts, lines 4-185 and 313-349. Numbers are in thousandths: a, e,
\* q, moid and albedo of the source times 1000; i in thousandths of a degree.
\* A cell of the file is <<>> when it is empty or holds no number, and <<n>>
\* when it holds the number n; a text cell is a sequence of characters.
VARIABLES
  rawRow,            \* the cells of the row at hand, by column
  enriched           \* the record built from it, NoRecord before

enrichVars == <<rawRow, enriched>>

NoRecord == [none |-> TRUE]

\* parseRow's numeric columns: parseFloat, and 0 for NaN.
NumberOf(cell) == IF cell = <<>> THEN 0 ELSE cell[1]

\* parseRow's flag columns: value?.toUpperCase() === 'Y'
FlagOf(cell) == cell \in {<<"Y">>, <<"y">>}

\* `text || fallback` on strings
OrElseText(text, fallback) == IF text = <<>> THEN fallback ELSE text

startsWith(text, c) == Len(text) > 0 /\ text[1] = c

Abs(x) == IF x < 0 THEN 0 - x ELSE x

\* The rows: every column present in the header, its cell filled or not.
Classes == {<<>>, <<"C">>, <<"S">>, <<"M">>, <<"X">>}
RawRows ==
  [ class : Classes,
    albedo : {<<>>, <<50>>, <<100>>, <<200>>, <<250>>, <<300>>},
    moid : {<<>>, <<50>>, <<200>>},
    a : {<<>>, <<1000>>, <<2700>>},
    e : {<<100>>},
    q : {<<>>, <<1000>>},
    i : {<<>>},
    diameter : {<<>>, <<1000>>},
    H : {<<>>},
    neo : {<<"N">>, <<"Y">>},
    pha : {<<"N">>} ]

\* parseRow on the columns the derived fields read (lines 168-185).
parseFields(raw) ==
  [ class |-> raw.class,
    albedo |-> NumberOf(raw.albedo),
    moid |-> NumberOf(raw.moid),
    a |-> NumberOf(raw.a),
    e |-> NumberOf(raw.e),
    q |-> NumberOf(raw.q),
    i |-> NumberOf(raw.i),
    diameter |-> NumberOf(raw.diameter),
    H |-> NumberOf(raw.H),
    neo |-> FlagOf(raw.neo),
    pha |-> FlagOf(raw.pha) ]

\* classifyAsteroid (lines 4-35); a, e and q default to 0 only when absent.
classifyAsteroid(x) ==
  IF x.pha THEN "Potentially Hazardous"
  ELSE IF x.neo THEN "Near-Earth Object"
  ELSE IF x.a >= 2000 /\ x.a <= 3300 /\ x.e < 300
  THEN IF x.a < 2500 THEN "Inner Main Belt"
       ELSE IF x.a < 2820 THEN "Middle Main Belt"
       ELSE "Outer Main Belt"
  ELSE IF x.a >= 5050 /\ x.a <= 5400 THEN "Jupiter Trojan"
  ELSE IF x.a >= 30000 /\ x.a <= 50000 THEN "Kuiper Belt Object"
  ELSE IF x.a > 30000 THEN "Trans-Neptunian Object"
  ELSE IF x.a >= 3700 /\ x.a <= 4200 /\ x.e < 300 THEN "Hilda Asteroid"
  ELSE IF x.q < 1017 /\ x.a >= 1000 THEN "Apollo Asteroid"
  ELSE IF x.q >= 1017 /\ x.q <= 1300 /\ x.a > 1000 THEN "Amor Asteroid"
  ELSE IF x.a < 1000 THEN "Aten Asteroid"
  ELSE "Unknown"

\* getAsteroidColor (lines 38-62)
getAsteroidColor(x) ==
  LET albedo == OrElse(x.albedo, 100)
      className == OrElseText(x.class, <<>>)
  IN IF startsWith(className, "C") \/ albedo < 100 THEN "#4a4a4a"
     ELSE IF startsWith(className, "S") \/ (albedo >= 100 /\ albedo < 250)
     THEN "#8b7355"
     ELSE IF startsWith(className, "M") \/ albedo >= 250 THEN "#a8a8a8"
     ELSE IF albedo < 50 THEN "#2d2d2d"
     ELSE IF albedo < 150 THEN "#5a5a5a"
     ELSE IF albedo < 300 THEN "#888888"
     ELSE "#b0b0b0"

\* getMiningDifficulty (lines 65-76); deltaV in thousandths. moid defaults
\* to 999 only when the field is absent, which it never is after parseRow.
getMiningDifficulty(x) ==
  LET deltaV == Abs(x.a - 1000) * 5 + x.e * 3 + (x.i \div 10) * 2
  IN IF deltaV < 3000 /\ x.moid < 100 THEN "Easy"
     ELSE IF deltaV < 5000 /\ x.moid < 300 THEN "Moderate"
     ELSE IF deltaV < 8000 THEN "Difficult"
     ELSE IF deltaV < 12000 THEN "Very Difficult"
     ELSE "Extreme"

\* estimateValueFromDiameter (lines 95-144). The value is computed from the
\* diameter, the density (in tenths of g/cm3) and the value per kg (in
\* 1e-4 $ before the variance factor, which depends on the diameter alone);
\* the model keeps these three in place of their product.
Density(albedo, className) ==
  IF startsWith(className, "C") \/ albedo < 100 THEN 15
  ELSE IF startsWith(className, "M") \/ albedo > 250 THEN 50
  ELSE IF startsWith(className, "S") THEN 27
  ELSE 25

ValuePerKg(albedo, className) ==
  IF startsWith(className, "M") \/ albedo > 250 THEN 1000
  ELSE IF startsWith(className, "C") \/ albedo < 100 THEN 100
  ELSE 50

estimateValueFromDiameter(diameter, albedo, className) ==
  [ diameter |-> diameter,
    density |-> Density(albedo, className),
    valuePerKg |-> ValuePerKg(albedo, className) ]

\* estimateValue (lines 79-93): without a diameter, one is estimated from H
\* (20 when missing) and the albedo; it is kept as that pair.
estimateValue(x) ==
  LET albedo == OrElse(x.albedo, 100)
      className == OrElseText(x.class, <<>>)
  IN IF x.diameter <= 0
     THEN estimateValueFromDiameter(<<"fromH", OrElse(x.H, 20), albedo>>,
                                    albedo, className)
     ELSE estimateValueFromDiameter(<<"given", x.diameter, 0>>, albedo,
                                    className)

\* The enrichment (lines 313-349): the stored fields with their defaults,
\* and the derived fields, computed from the parsed row.
EnrichFields(parsed) ==
  [ class |-> OrElseText(parsed.class, <<"M", "B", "A">>),
    albedo |-> OrElse(parsed.albedo, 100),
    moid |-> OrElse(parsed.moid, 999000),
    a |-> OrElse(parsed.a, 0),
    e |-> OrElse(parsed.e, 0),
    q |-> OrElse(parsed.q, 0),
    i |-> OrElse(parsed.i, 0),
    diameter |-> OrElse(parsed.diameter, 0),
    H |-> OrElse(parsed.H, 0),
    neo |-> parsed.neo,
    pha |-> parsed.pha,
    category |-> classifyAsteroid(parsed),
    color |-> getAsteroidColor(parsed),
    estimatedValue |-> estimateValue(parsed),
    miningDifficulty |-> getMiningDifficulty(parsed) ]

\* The loop stands before a first row whose optional cells are all empty.
EnrichInit ==
  /\ rawRow = [class |-> <<>>, albedo |-> <<>>, moid |-> <<>>, a |-> <<>>,
               e |-> <<100>>, q |-> <<>>, i |-> <<>>, diameter |-> <<>>,
               H |-> <<>>, neo |-> <<"N">>, pha |-> <<"N">>]
  /\ enriched = NoRecord

NoEnrich == EnrichInit

\* One turn of the parse loop on the row at hand.
EnrichRow ==
  /\ enriched = NoRecord
  /\ enriched' = EnrichFields(parseFields(rawRow))
  /\ UNCHANGED rawRow

\* The loop moves on to the next line.
NextRow ==
  /\ enriched # NoRecord
  /\ rawRow' \in RawRows
  /\ enriched' = NoRecord

\* ---------------------------------------------------------- specifications
vars == <<ingestVars, loadVars, queryVars, sceneVars, appVars, enrichVars>>
exceptIngest == <<loadVars, queryVars, sceneVars, appVars, enrichVars>>
exceptLoad == <<ingestVars, queryVars, sceneVars, appVars, enrichVars>>
exceptQuery == <<ingestVars, loadVars, sceneVars, appVars, enrichVars>>
exceptScene == <<ingestVars, loadVars, queryVars, appVars, enrichVars>>
exceptApp == <<loadVars, queryVars, sceneVars, enrichVars>>
exceptEnrich == <<ingestVars, loadVars, queryVars, sceneVars, appVars>>

\* No manager: the state of loadVars while the ingestion runs.
NoLoad ==
  /\ impl = "BVH"
  /\ catalogue = [k \in 1..MaxLoadLen |-> Belt]
  /\ loadingAborted = FALSE
  /\ batchedMesh = 0
  /\ meshes = <<>>
  /\ sceneMeshes = {}
  /\ asteroidData = [by |-> 0, n |-> 0]
  /\ positionMap = EmptyMap
  /\ instancePositions = <<>>
  /\ calls = <<>>
  /\ late = {}
  /\ nearbyLabels = {}
  /\ lod = [cam |-> <<0, 0, 0>>, n |-> -1]
  /\ disposed = NotDisposed

\* The ingestion pipeline over every file, with reloads and failures.
Init == IngestInit /\ NoLoad /\ NoQuery /\ NoScene /\ NoApp /\ NoEnrich
Next ==
  \/ CheckCache /\ UNCHANGED exceptIngest
  \/ StreamRecord /\ UNCHANGED exceptIngest
  \/ StreamContinue /\ UNCHANGED exceptIngest
  \/ Fetch /\ UNCHANGED exceptIngest
  \/ ReadChunk /\ UNCHANGED exceptIngest
  \/ Settle /\ UNCHANGED exceptIngest
  \/ Prepare /\ UNCHANGED exceptIngest
  \/ Parse /\ UNCHANGED exceptIngest
  \/ StoreBatch /\ UNCHANGED exceptIngest
  \/ Checkpoint /\ UNCHANGED exceptIngest
  \/ MarkLoaded /\ UNCHANGED exceptIngest
  \/ Reload /\ UNCHANGED exceptIngest
Spec == Init /\ [][Next]_vars

\* The instance managers' loads, the database left alone.
IdleLoader ==
  /\ rows = <<>>
  /\ pc = "idle"
  /\ alreadyStored = 0
  /\ asteroids = <<>>
  /\ idx = 0
  /\ storedSoFar = 0
  /\ received = 0
  /\ estimatedTotal = 0
  /\ events = <<>>
  /\ result = -1
  /\ failedIn = ""
  /\ failedOp = ""
  /\ scan = NoScan
  /\ atStart = <<{}, {}>>

NoIngest == store = {} /\ meta = {} /\ IdleLoader

InitLoad == NoIngest /\ LoadInit /\ NoQuery /\ NoScene /\ NoApp /\ NoEnrich
NextLoad ==
  \/ LoadOptimized /\ UNCHANGED exceptLoad
  \/ AbortWaitOver /\ UNCHANGED exceptLoad
  \/ FrameOptimized /\ UNCHANGED exceptLoad
  \/ LoadBVH /\ UNCHANGED exceptLoad
  \/ TimerBVH /\ UNCHANGED exceptLoad
  \/ UpdateLOD /\ UNCHANGED exceptLoad
  \/ Dispose /\ UNCHANGED exceptLoad
SpecLoad == InitLoad /\ [][NextLoad]_vars

\* A database of at most one record, the loader idle.
InitQuery ==
  /\ store \in {s \in SUBSET QRecords : Cardinality(s) <= 1}
  /\ meta = markDataLoaded({})
  /\ IdleLoader
  /\ NoLoad
  /\ NoQuery
  /\ NoScene
  /\ NoApp /\ NoEnrich

\* The queries on a database at rest, with writes in between.
queryFixed == <<sceneVars, appVars, enrichVars, meta, rows, pc, alreadyStored, asteroids, idx, storedSoFar,
                received, estimatedTotal, events, result, failedIn, failedOp,
                scan, atStart, loadVars>>
NextQuery ==
  \/ GetPage /\ UNCHANGED queryFixed
  \/ Search /\ UNCHANGED queryFixed
  \/ QueryWrite /\ UNCHANGED queryFixed
SpecQuery == InitQuery /\ [][NextQuery]_vars

\* The controller's frames and switches around one load of the mesh.
InitScene == NoIngest /\ NoLoad /\ NoQuery /\ SceneInit /\ NoApp /\ NoEnrich
NextScene ==
  \/ SetFreeze /\ UNCHANGED exceptScene
  \/ SetFrustumCullingEnabled /\ UNCHANGED exceptScene
  \/ BeltLoadStart /\ UNCHANGED exceptScene
  \/ BeltLoadFinish /\ UNCHANGED exceptScene
  \/ Frame /\ UNCHANGED exceptScene
  \/ SetAsteroidsVisible /\ UNCHANGED exceptScene
  \/ SetLODEnabled /\ UNCHANGED exceptScene
SpecScene == InitScene /\ [][NextScene]_vars

\* The App around loadAsteroidData: every step of a run is a step the App
\* waits for, and the page may be loaded anew.
InitApp ==
  /\ IngestInit
  /\ Len(rows) <= MaxAppRows
  /\ NoLoad /\ NoQuery /\ NoScene /\ NoEnrich
  /\ AppInit

\* One step of loadAsteroidData while loadData awaits it.
Awaited(step) ==
  appPc = "loading" /\ step /\ UNCHANGED <<appVars, exceptApp>>

\* One step of the App itself.
AppStep(step) == step /\ UNCHANGED <<ingestVars, exceptApp>>

AppProgress ==
  \/ AppStep(AppMount)
  \/ Awaited(CheckCache)
  \/ Awaited(StreamRecord)
  \/ Awaited(StreamContinue)
  \/ Awaited(Fetch)
  \/ Awaited(ReadChunk)
  \/ Awaited(Settle)
  \/ Awaited(Prepare)
  \/ Awaited(Parse)
  \/ Awaited(StoreBatch)
  \/ Awaited(Checkpoint)
  \/ Awaited(MarkLoaded)
  \/ AppStep(AppLoadResolved)
  \/ AppStep(AppLoadRejected)
  \/ AppStep(AppStats)
  \/ AppStep(AppDismiss)
  \/ AppStep(AppScene)
NextApp ==
  \/ AppProgress
  \/ AppReload /\ UNCHANGED exceptApp
\* Every promise the App awaits settles and every timer fires: a step that
\* stays possible is taken. Nothing obliges the user to reload.
SpecApp == InitApp /\ [][NextApp]_vars /\ WF_vars(AppProgress)

\* Resuming over a file that repeats ids: up to MaxDupRows data lines, each a
\* well-formed row, at most MaxDups of them carrying the id of another line.
MaxDupRows == 5
MaxDups == 2
DupFiles ==
  UNION {
    { [k \in 1..n |-> Row(k, n, kinds[k])] :
        kinds \in { f \in [1..n -> {"ok", "dup"}] :
                      Cardinality({k \in 1..n : f[k] = "dup"}) <= MaxDups } }
    : n \in 1..MaxDupRows }

InitResume ==
  /\ store = {}
  /\ meta = {}
  /\ rows \in DupFiles
  /\ pc = "idle"
  /\ alreadyStored = 0
  /\ asteroids = <<>>
  /\ idx = 0
  /\ storedSoFar = 0
  /\ received = 0
  /\ estimatedTotal = 0
  /\ events = <<>>
  /\ result = -1
  /\ failedIn = ""
  /\ failedOp = ""
  /\ scan = NoScan
  /\ atStart = <<{}, {}>>
  /\ NoLoad /\ NoQuery /\ NoScene /\ NoApp /\ NoEnrich
SpecResume == InitResume /\ [][Next]_vars

\* The parse loop's enrichment, row after row.
InitEnrich == NoIngest /\ NoLoad /\ NoQuery /\ NoScene /\ NoApp /\ EnrichInit
NextEnrich ==
  \/ EnrichRow /\ UNCHANGED exceptEnrich
  \/ NextRow /\ UNCHANGED exceptEnrich
SpecEnrich == InitEnrich /\ [][NextEnrich]_vars

\* ------------------------------------------------------------------ claims
\* The records the file parses to.
Parsed == ParseFrom(rows, 1, <<>>, 0, <<>>)[1]

UniqueIds(as) ==
  \A i, j \in 1..Len(as) : i # j => as[i].id # as[j].id

\* The run went through download and store, not through the cache replay.
ViaStore == scan = NoScan

\* The checkpoint: the 'loadProgress' records of the metadata store.
Checkpoints(m) == {x \in m : x.key = "loadProgress"}

\* The last record of `as` that carries the id.
LastWithId(as, id) ==
  as[CHOOSE k \in 1..Len(as) :
       /\ as[k].id = id
       /\ \A j \in (k + 1)..Len(as) : as[j].id # id]

\* C1. Resume safety: a run over a file with unique ids that ends, after any
\* interruptions of earlier runs, ends with the completion flag set, as many
\* stored records as parsed records, and exactly one stored record per id.
C1_ResumeSafety ==
  (pc = "done" /\ ViaStore /\ UniqueIds(asteroids)) =>
    /\ isDataCached(meta)
    /\ getCachedCount(store) = Len(asteroids)
    /\ \A k \in 1..Len(asteroids) :
         Cardinality({x \in store : x.id = asteroids[k].id}) = 1

\* A resumed run of several batches that rewrote a batch already written.
C1_Witness ==
  /\ pc = "done" /\ ViaStore /\ UniqueIds(asteroids)
  /\ Len(asteroids) > StoreBatchSize
  /\ alreadyStored > 0
  /\ StartIndex(alreadyStored) < alreadyStored

\* C4. Completion invariant: the completion flag is set, or about to be set,
\* only when every record the file parses to is in the store.
C4_CompletionInvariant ==
  (isDataCached(meta) \/ pc = "mark") =>
    \A k \in 1..Len(Parsed) : \E x \in store : x.id = Parsed[k].id

\* A resumed run of several batches has set the flag.
C4_Witness ==
  /\ pc = "done" /\ ViaStore /\ isDataCached(meta)
  /\ alreadyStored > 0
  /\ Len(asteroids) > StoreBatchSize

\* C5. The checkpoint never runs ahead of the store: for a file with unique
\* ids, the checkpoint's storedCount is at most count() in every state.
C5_CheckpointNotAhead ==
  UniqueIds(Parsed) =>
    \A x \in Checkpoints(meta) : x.storedCount <= getCachedCount(store)

\* A batch has committed and the checkpoint of the batch before still stands.
C5_Witness ==
  /\ pc = "checkpoint" /\ UniqueIds(Parsed)
  /\ \E x \in Checkpoints(meta) :
       x.storedCount > 0 /\ x.storedCount < getCachedCount(store)

\* C6. Upsert idempotence: the store never holds two records under one id;
\* writing a record a second time, in the same batch or in a batch of its
\* own, leaves the store as one write leaves it; a later write under the same
\* id replaces the earlier one; and a finished run leaves under every id the
\* last record the file has for it.
C6_UpsertIdempotent ==
  /\ \A x, y \in store : x.id = y.id => x = y
  /\ \A k \in 1..Len(asteroids) :
       LET r == asteroids[k]
           once == storeAsteroids(store, <<r>>)
       IN /\ storeAsteroids(store, <<r, r>>) = once
          /\ storeAsteroids(once, <<r>>) = once
          /\ \A j \in 1..Len(asteroids) :
               asteroids[j].id = r.id =>
                 LET both == storeAsteroids(store, <<r, asteroids[j]>>)
                 IN /\ {x \in both : x.id = r.id} = {asteroids[j]}
                    /\ getCachedCount(both) = getCachedCount(once)
  /\ (pc = "done" /\ ViaStore) =>
       \A x \in store : x = LastWithId(asteroids, x.id)

\* A finished run over a file that has two different records under one id.
C6_Witness ==
  /\ pc = "done" /\ ViaStore
  /\ \E i, j \in 1..Len(asteroids) :
       /\ i < j
       /\ asteroids[i].id = asteroids[j].id
       /\ asteroids[i] # asteroids[j]
       /\ asteroids[j] \in store

\* C7. A download failure leaves the database untouched: when the run
\* rejects because fetch or reader.read failed, the record store and the
\* metadata (checkpoint and completion flag) are as they were at its start.
C7_DownloadFailureWritesNothing ==
  (pc = "failed" /\ failedOp \in {"fetch", "reader.read"}) =>
    /\ failedIn = "downloading"
    /\ <<store, meta>> = atStart

\* The download of a resumed run fails after some bytes have arrived.
C7_Witness ==
  /\ pc = "failed" /\ failedOp = "reader.read"
  /\ received > 0
  /\ store # {}
  /\ Checkpoints(meta) # {}


\* C8, as amended. A failed storeAsteroids batch writes nothing: the store
\* holds what the run's committed batches put on top of what it found, the
\* checkpoint is the one written after the last batch this run committed (the
\* one it found, if it committed none) and is not ahead of the store, the
\* completion flag is as the run found it, and the next run starts at or
\* before the failed batch.
C8_StoreFailureWritesNothing ==
  (pc = "failed" /\ failedOp = "storeAsteroids") =>
    LET first == StartIndex(alreadyStored)
        written == SubSeq(asteroids, first + 1, idx)
    IN /\ store = storeAsteroids(atStart[1], written)
       /\ meta = IF idx > first
                 THEN updatePartialLoadProgress(atStart[2], idx, Len(asteroids))
                 ELSE atStart[2]
       /\ isDataCached(meta) = isDataCached(atStart[2])
       /\ StartIndex(getCachedCount(store)) <= idx
       /\ UniqueIds(asteroids) =>
            \A x \in Checkpoints(meta) : x.storedCount <= getCachedCount(store)

\* A batch fails after the run has committed an earlier one.
C8_Witness ==
  /\ pc = "failed" /\ failedOp = "storeAsteroids"
  /\ idx > StartIndex(alreadyStored)
  /\ Checkpoints(meta) # {}

\* C8 as stated: after a failed storeAsteroids batch the checkpoint describes
\* the last batch that committed (its storedCount is the store's count) and
\* none of the failed batch's records is in the store.
C8_AsStated ==
  (pc = "failed" /\ failedOp = "storeAsteroids" /\ UniqueIds(asteroids)) =>
    /\ store # {} =>
         \E x \in Checkpoints(meta) : x.storedCount = getCachedCount(store)
    /\ \A k \in 1..Len(StoreBatchAt(asteroids, idx)) :
         \A x \in store : x.id # StoreBatchAt(asteroids, idx)[k].id

\* A line of the file whose number of values differs from the header's.
Malformed(line) == line # <<>> /\ Len(line) # Len(Headers)

\* C9: a run over a file with exactly one malformed line, its other lines
\* being rows with ids of their own, ends with one record per other line, the
\* completion flag set, and a final event that reports one skipped row.
C9_MalformedRowsCounted ==
  ( /\ pc = "done" /\ ViaStore
    /\ Cardinality({k \in 1..Len(rows) : Malformed(rows[k])}) = 1
    /\ \A k \in 1..Len(rows) : Malformed(rows[k]) \/ rows[k] = <<k, 1>> ) =>
    /\ getCachedCount(store) = Len(rows) - 1
    /\ isDataCached(meta)
    /\ "skipped" \in DOMAIN Last(events)
    /\ Last(events).skipped = 1

\* C2: a run that starts on a complete, non-empty cache ends by returning the
\* count after a 'complete' event, never in an error.
C2_CacheHitCompletes ==
  (~ViaStore /\ pc \in {"done", "failed"}) =>
    /\ pc = "done"
    /\ result = scan.total
    /\ Last(events).phase = "complete"

\* C3: no scan waits on a timer between two reads of its cursor: whenever
\* cursor.continue() is about to be called, the scan's transaction is active.
C3_NoYieldMidCursor ==
  pc = "stream_timer" => scan.txActive


\* C10: a second loadAsteroids call stops the first: no mesh ever holds
\* instances added by two calls, and no call adds an instance after a later
\* call has begun to build.
C10_SecondLoadStopsFirst ==
  /\ late = {}
  /\ \A m \in 1..Len(meshes) :
       \A i, j \in 1..Len(meshes[m].instances) :
         meshes[m].instances[i].by = meshes[m].instances[j].by


\* The indices of the positions within the threshold of the last camera.
InRadius ==
  {i \in 0..(Len(instancePositions) - 1) :
     Dist2(lod.cam, instancePositions[i + 1]) < NearbyThreshold * NearbyThreshold}

\* C11: after an updateLOD call the labelled set has at most 5 members and
\* is the set of the (up to 5) loaded instances closest to the camera among
\* those within the radius of 100 units.
C11_NearbyIsClosestFive ==
  lod.n = Len(instancePositions) =>
    /\ Cardinality(nearbyLabels) <= NearbyLimit
    /\ nearbyLabels \subseteq InRadius
    /\ Cardinality(nearbyLabels) = Min(NearbyLimit, Cardinality(InRadius))
    /\ \A i \in nearbyLabels : \A j \in InRadius \ nearbyLabels :
         Dist2(lod.cam, instancePositions[i + 1])
           <= Dist2(lod.cam, instancePositions[j + 1])


\* C12: getAsteroidsByPage(page, pageSize) returns the records at positions
\* [page * pageSize, page * pageSize + pageSize) of the store's key order:
\* fewer at the end, none past it, never more than pageSize; a call repeated
\* with no write in between returns the same.
C12_PageIsSliceOfKeyOrder ==
  pageCall.made =>
    LET all == InKeyOrder(store)
        first == pageCall.page * pageCall.pageSize
        r == pageCall.results
    IN /\ Len(r) = Max(0, Min(pageCall.pageSize, Len(all) - first))
       /\ \A k \in 1..Len(r) : r[k] = all[first + k]
       /\ r = getAsteroidsByPage(store, pageCall.page, pageCall.pageSize)

\* A page past the first that the end of the store cuts short.
C12_Witness ==
  /\ pageCall.made
  /\ pageCall.page > 0
  /\ Len(pageCall.results) > 0
  /\ Len(pageCall.results) < pageCall.pageSize

\* The records of the store that searchAsteroids is to find, in key order.
RECURSIVE Wanted(_, _)
Wanted(recs, query) ==
  IF recs = <<>> THEN <<>>
  ELSE (IF \E f \in {"name", "pdes", "full_name"} :
             includes(toLowerCase(recs[1][f]), toLowerCase(query))
        THEN <<recs[1]>> ELSE <<>>) \o Wanted(Tail(recs), query)

\* C13: searchAsteroids returns as total the number of records one of whose
\* name, pdes and full_name contains the query without regard to case,
\* whatever the page, and as results the positions [page * pageSize,
\* page * pageSize + pageSize) of those records in key order, so that the
\* pages of one size, one after the other, make up the matches.
C13_SearchPagesPartitionMatches ==
  searchCall.made =>
    LET want == Wanted(InKeyOrder(store), searchCall.query)
        first == searchCall.page * searchCall.pageSize
        r == searchCall.answer.results
        size == searchCall.pageSize
        Pages[p \in 0..Len(want)] ==
          IF p * size >= Len(want) THEN <<>>
          ELSE searchAsteroids(store, searchCall.query, p, size).results
                 \o Pages[p + 1]
    IN /\ searchCall.answer.total = Len(want)
       /\ Len(r) = Max(0, Min(size, Len(want) - first))
       /\ \A k \in 1..Len(r) : r[k] = want[first + k]
       /\ size > 0 => Pages[0] = want

\* A search in capitals finds lower-case text in a field other than name, on
\* a page after the first.
C13_Witness ==
  /\ searchCall.made
  /\ searchCall.query = <<"A", "B">>
  /\ searchCall.page > 0
  /\ searchCall.answer.results # <<>>
  /\ searchCall.answer.total > Len(searchCall.answer.results)
  /\ \E k \in 1..Len(searchCall.answer.results) :
       searchCall.answer.results[k].name = <<>>


\* The place of a phase in the order of a run's phases.
Rank(phase) ==
  CASE phase = "checking" -> 0
    [] phase = "loading-cache" -> 1
    [] phase = "downloading" -> 1
    [] phase = "parsing" -> 2
    [] phase = "storing" -> 3
    [] phase = "complete" -> 4

Phases == {events[k].phase : k \in 1..Len(events)}

\* C14. Phase order of one run: the events begin with 'checking' and go on
\* through loading-cache, or through downloading, parsing and storing, never
\* backwards and never mixing the two paths; 'complete' comes at most once,
\* as the last event, after every phase of its path, and only when the
\* completion flag is set; a run that returns ends with it and a run that
\* fails has none.
C14_PhaseOrder ==
  /\ events # <<>> => events[1].phase = "checking"
  /\ \A i, j \in 1..Len(events) :
       i < j => Rank(events[i].phase) <= Rank(events[j].phase)
  /\ \/ Phases \subseteq {"checking", "loading-cache", "complete"}
     \/ Phases \subseteq {"checking", "downloading", "parsing", "storing",
                         "complete"}
  /\ \A k \in 1..Len(events) :
       events[k].phase = "complete" =>
         /\ k = Len(events)
         /\ pc = "done"
         /\ isDataCached(meta)
         /\ \/ {"downloading", "parsing", "storing"} \subseteq Phases
            \/ /\ "loading-cache" \in Phases
               /\ scan.pos > scan.total
  /\ pc = "done" => Last(events).phase = "complete"
  /\ pc = "failed" => "complete" \notin Phases

\* A resumed run has come to its end through all the phases of a download.
C14_Witness ==
  /\ pc = "done" /\ ViaStore
  /\ alreadyStored > 0
  /\ Last(events).phase = "complete"
  /\ \E k \in 1..Len(events) :
       events[k].phase = "checking" /\ events[k].current = 50

\* The 'storing' events of the run so far, in order.
Storing == SelectSeq(events, LAMBDA ev : ev.phase = "storing")

\* C19. Monotonic progress: within one run the current value of successive
\* 'storing' events never decreases, the first of them is the count the run
\* found in the store, and the storedCount a run writes to the checkpoint is
\* the value of its last 'storing' event.
C19_MonotonicProgress ==
  /\ \A i, j \in 1..Len(Storing) :
       i < j => Storing[i].current <= Storing[j].current
  /\ Storing # <<>> => Storing[1].current = alreadyStored
  /\ Storing # <<>> => Last(Storing).current <= storedSoFar
  /\ (Len(Storing) > 1 /\ ViaStore) =>
       \E x \in Checkpoints(meta) : x.storedCount = Last(Storing).current

\* A resumed run has written two checkpoints.
C19_Witness ==
  /\ alreadyStored > 0
  /\ Len(Storing) >= 3
  /\ Storing[1].current < Storing[2].current
  /\ Storing[2].current < Storing[3].current

\* The ids of the records of a store.
Ids(s) == {x.id : x \in s}

Instances == UNION {Range(meshes[m].instances) : m \in 1..Len(meshes)}

\* C16: position determinism: instances built from identical orbital
\* elements, in one load or in two, are at the same position, also when ma,
\* a or e is 0.
C16_PositionDeterminism ==
  \A x, y \in Instances :
    catalogue[x.rec] = catalogue[y.rec] => x.pos = y.pos

\* C17: a record whose semi-major axis is not positive gets no render
\* instance.
C17_InvalidOrbitNotRendered ==
  \A x \in Instances : catalogue[x.rec].a10 > 0


\* C15: from setFreeze(true) until setFreeze(false) the visible flags of the
\* scene's objects and the culling state of the asteroid mesh stay as they
\* were when freeze was set.
C15_FreezeHoldsDecisions ==
  freeze => Decisions = frozenAt


\* C18: an ingestion failure is not fatal: when loadAsteroidData (or the
\* statistics read after it) rejects, the App publishes its final message;
\* the scene starts only once the loading screen is gone and gets the records
\* the store holds then; and in every run, failed or not, the loading screen
\* is dismissed in the end.
C18_FailureNotFatal ==
  /\ [](appPc \in {"failedWait", "caught"} => loadProgress = <<FailureMessage>>)
  /\ []((pc = "failed" /\ appPc = "shown") => loadProgress = <<FailureMessage>>)
  /\ [](sceneStarted => (~isLoading /\ sceneRecords = store))
  /\ <>[](~isLoading)
  /\ <>[]sceneStarted

\* After a failed run the scene runs on records an earlier run had stored.
C18_Witness ==
  /\ pc = "failed"
  /\ ~isLoading
  /\ loadProgress = <<FailureMessage>>
  /\ sceneStarted
  /\ sceneRecords # {}
  /\ ~isDataCached(meta)

\* The number of leading records of the file whose write an earlier run had
\* performed: the records of one file are pairwise different, so a record
\* found in the store was put there by the batch that holds its place.
WrittenBefore ==
  LET S == {k \in 1..Len(asteroids) : asteroids[k] \in atStart[1]}
  IN IF S = {} THEN 0 ELSE CHOOSE k \in S : \A j \in S : j <= k

\* C21: bounded loss: a restarted run starts writing so that at most one
\* batch of the writes performed before the interruption is performed again.
C21_BoundedLoss ==
  asteroids # <<>> =>
    WrittenBefore - StartIndex(alreadyStored) <= StoreBatchSize

\* C22: cooperative cancellation: once dispose() or abort() has been called
\* on the manager, no mesh gains an instance and no mesh is attached to the
\* scene, whenever the call came.
C22_NothingAfterDispose ==
  disposed.called =>
    /\ \A m \in 1..Len(meshes) :
         Len(meshes[m].instances) =
           IF m <= Len(disposed.meshes)
           THEN Len(disposed.meshes[m].instances) ELSE 0
    /\ sceneMeshes \subseteq disposed.scene

PhaseAt(evs, phase) == {k \in 1..Len(evs) : evs[k].phase = phase}
LastOf(S) == CHOOSE k \in S : \A j \in S : j <= k

\* The run has left the read loop.
DownloadOver ==
  /\ pc \notin {"idle", "stream", "stream_timer", "fetch", "read"}
  /\ ~(pc = "failed" /\ failedIn = "downloading")
  /\ PhaseAt(events, "downloading") # {}

\* C23: exact 100% before the phase changes. Once the download is over, the
\* last 'downloading' event has current equal to total, it was emitted with
\* every byte of the stream received, and every 'parsing' event comes after
\* it; the step that emits the first 'parsing' event is the end of the settle
\* delay, which starts from that 100% event.
C23_FullBeforeParsing ==
  /\ [](DownloadOver =>
          LET d == LastOf(PhaseAt(events, "downloading"))
          IN /\ events[d].current = events[d].total
             /\ getPercentage(events[d]) = 100
             /\ events[d].message = <<"Downloaded", FileBytes>>
             /\ \A p \in PhaseAt(events, "parsing") : p > d)
  /\ [](PhaseAt(events, "parsing") # {} => DownloadOver)
  /\ [][(PhaseAt(events, "parsing") = {} /\ PhaseAt(events', "parsing") # {})
          => /\ pc = "settle"
             /\ Last(events).phase = "downloading"
             /\ Last(events).current = Last(events).total
             /\ events' = Append(events, Last(events'))]_vars

\* A download whose response had no Content-Length has gone on to parsing.
C23_Witness ==
  /\ pc = "prepare"
  /\ estimatedTotal = 0
  /\ PhaseAt(events, "parsing") # {}
  /\ Cardinality(PhaseAt(events, "downloading")) > 2

\* C24: unknown download size: without a Content-Length, every 'downloading'
\* event of the read loop carries the bytes received and no total.
C24_NoInventedTotal ==
  \A k \in 1..Len(events) :
    (/\ events[k].phase = "downloading"
     /\ events[k].message[1] = "Downloading"
     /\ Len(events[k].message) = 3
     /\ events[k].message[3] = 0)
      => /\ events[k].current = events[k].message[2]
         /\ events[k].total = 0

\* The onProgress calls streamAsteroidsFromCache has made, in order.
ReplayCalls == SelectSeq(events, LAMBDA e : e.phase = "loading-cache"
                                             /\ Len(e.message) = 3)

\* C25: cache replay progress: when streamAsteroidsFromCache is over, its
\* onProgress calls carry strictly increasing loaded values, at least
\* max(floor(total/100), ProgressRows) apart except for the last, the last
\* one reports loaded = total, and the function has returned total records.
C25_ReplayProgress ==
  (scan.total > 0 /\ pc \in {"done", "failed"}) =>
    LET c == ReplayCalls
        interval == Max(scan.total \div 100, ProgressRows)
    IN /\ c # <<>>
       /\ \A k \in 1..(Len(c) - 1) : c[k + 1].current > c[k].current
       /\ \A k \in 1..(Len(c) - 2) : c[k + 1].current - c[k].current >= interval
       /\ Len(c) > 1 => c[1].current >= interval
       /\ Last(c).current = scan.total
       /\ pc = "done"
       /\ scan.loaded = scan.total
       /\ scan.total = getCachedCount(store)

\* The material class a density, a value per kg and a display colour stand
\* for. The default density 2.5 ("rocky") is counted as silicate.
DensityClass(d) ==
  CASE d = 15 -> "carbonaceous" [] d = 50 -> "metallic" [] OTHER -> "silicate"
ValueClass(v) ==
  CASE v = 100 -> "carbonaceous" [] v = 1000 -> "metallic" [] OTHER -> "silicate"
DisplayClass(c) ==
  CASE c = "#4a4a4a" -> "carbonaceous"
    [] c = "#8b7355" -> "silicate"
    [] c = "#a8a8a8" -> "metallic"
    [] OTHER -> "none"

\* C26: one material class per record: the class behind the density, the
\* class behind the value per kg and the display class of a row are the same.
C26_OneMaterialClass ==
  enriched # NoRecord =>
    /\ DensityClass(enriched.estimatedValue.density)
         = DisplayClass(enriched.color)
    /\ ValueClass(enriched.estimatedValue.valuePerKg)
         = DisplayClass(enriched.color)

\* The fields of a stored record that the derived fields are computed from.
StoredFields(rec) ==
  [f \in {"class", "albedo", "moid", "a", "e", "q", "i", "diameter", "H",
          "neo", "pha"} |-> rec[f]]

\* C28: the stored derived fields are what the four functions give for the
\* record as stored.
C28_DerivedAgreeWithStored ==
  enriched # NoRecord =>
    /\ enriched.category = classifyAsteroid(StoredFields(enriched))
    /\ enriched.color = getAsteroidColor(StoredFields(enriched))
    /\ enriched.estimatedValue = estimateValue(StoredFields(enriched))
    /\ enriched.miningDifficulty = getMiningDifficulty(StoredFields(enriched))

\* C27: single writer: in one page session loadAsteroidData is called at most
\* once, however often the load effect runs, so one run at most writes to the
\* store and the file is fetched at most once.
C27_SingleWriter ==
  /\ loadRuns <= 1
  /\ loadRuns = 0 => pc = "idle"
  /\ Cardinality({k \in 1..Len(events) :
                    events[k].message = <<"Downloading asteroid data">>}) <= 1

\* The effect has run twice and the one run it started is writing.
C27_Witness ==
  /\ effectRuns = 2
  /\ loadRuns = 1
  /\ pc = "checkpoint"

\* C29: the hide toggle sticks: from setAsteroidsVisible(false) until
\* setAsteroidsVisible(true) the asteroid mesh, if there is one, and both
\* decorative belts are invisible.
C29_HiddenStaysHidden ==
  asteroidsHidden =>
    /\ beltMesh # "none" => ~meshVisible
    /\ ~mainBeltVisible
    /\ ~kuiperBeltVisible

\* Every loadAsteroids call made so far has completed, none was aborted and
\* the manager was not disposed of.
AllLoadsComplete ==
  /\ calls # <<>>
  /\ ~disposed.called
  /\ \A k \in 1..Len(calls) : calls[k].pc = "done"
  /\ asteroidData.by = Len(calls)

\* C30: instance table consistency: when the loadAsteroids calls have
\* completed, the mesh at hand holds asteroidData.length instances,
\* positionMap has as many entries and (AsteroidBeltBVH) instancePositions as
\* many positions, and index i names the record and the position of
\* instance i.
C30_InstanceTablesAgree ==
  AllLoadsComplete =>
    LET n == asteroidData.n
        inst == IF batchedMesh = 0 THEN <<>>
                ELSE meshes[batchedMesh].instances
    IN /\ Len(inst) = n
       /\ Cardinality(DOMAIN positionMap) = n
       /\ impl = "BVH" => Len(instancePositions) = n
       /\ \A i \in 0..(n - 1) :
            /\ i \in DOMAIN positionMap
            /\ positionMap[i] = inst[i + 1].rec
            /\ impl = "BVH" => instancePositions[i + 1] = inst[i + 1].pos

====
